---- MODULE Spec2Model ----
(***************************************************************************)
(* A model of midi_image_trigger: the grid layout of midi2img.py, its      *)
(* driving loop (MIDI note set, rendering, effect call, additive blend)    *)
(* and the image-as-signal effect pipeline of corruptize.py.               *)
(*                                                                         *)
(* Three specifications share the variables:                               *)
(*   SpecGrid  one call of compute_grid_dimensions, its while loop taken   *)
(*             one iteration per step;                                     *)
(*   SpecFx    corruptize's two entry points, init_worker and              *)
(*             process_image_array, called in any order on any frame;      *)
(*   Spec      main(): init_worker, then the tick loop.                    *)
(***************************************************************************)
EXTENDS Integers, Sequences, FiniteSets, TLC

VARIABLES
    \* ---- compute_grid_dimensions (SpecGrid)
    g_pc,        \* "call" | "loop" | "done"
    g_args,      \* [n_items, window_w, window_h, padding, min_cell_size]
    cols, rows,  \* the loop's locals
    decs,        \* history: number of `cols -= 1` executed
    g_ret,       \* the returned 6-tuple
    \* ---- corruptize module state
    board,       \* _GLOBAL_BOARD: None, or the Pedalboard with its Delay
    configured,  \* history: number of Pedalboard([...]) constructions
    resetDefault,\* the pedalboard build's default for __call__'s reset
    fxHist,      \* history: the process_image_array calls made (SpecFx)
    \* ---- main() (Spec)
    pc, running, active, screen, modified, ticks, msgs,
    blendAlpha,  \* whether the pygame build applies set_alpha under BLEND_ADD
    lastEv,      \* history: last note-on/note-off message seen per note
    placement,   \* history: <<note, row, col>> of each blit of this tick
    fxIn,        \* history: the array process_screen handed over this tick
    presented    \* history: the frames shown by display.flip()

gridVars == <<g_pc, g_args, cols, rows, decs, g_ret>>
fxVars   == <<board, configured, resetDefault, fxHist>>
loopVars == <<pc, running, active, screen, modified, ticks, msgs, blendAlpha,
              lastEv, placement, fxIn, presented>>
vars     == <<gridVars, fxVars, loopVars>>

None == [none |-> TRUE]

(***************************************************************************)
(* Bounds of the model.                                                    *)
(***************************************************************************)
MaxItems == 10        \* largest n_items tried in SpecGrid
MaxCalls == 3         \* process_image_array calls per behaviour of SpecFx
MaxTicks == 2         \* ticks of the main loop per behaviour of Spec
MaxMsgs  == 3         \* MIDI messages drained per behaviour of Spec
DelaySamples == 4     \* delay_seconds * fs in samples (44100 in the program)

(***************************************************************************)
(* Integer helpers for Python's float arithmetic on small integers.        *)
(***************************************************************************)
Max(a, b) == IF a >= b THEN a ELSE b
Min(a, b) == IF a <= b THEN a ELSE b

\* a mutant of CeilDiv: floor division
FloorDivMutant(a, b) == a \div b

\* math.ceil(a / b) for b > 0
CeilDiv(a, b) == -((-a) \div b)

\* math.ceil(math.sqrt(n)) for n >= 1
CeilSqrt(n) == CHOOSE c \in 1..n : c * c >= n /\ (c - 1) * (c - 1) < n

\* int(a / b) for b > 0: Python's int() truncates toward zero
TruncDiv(a, b) == IF a >= 0 THEN a \div b ELSE -((-a) \div b)

(***************************************************************************)
(* compute_grid_dimensions, midi2img.py 82-113.                            *)
(***************************************************************************)
\* a mutant of CellFits: only the width is tested
CellFitsWidthOnly(c, r, window_w, window_h, padding, min_cell_size) ==
    window_w - (c + 1) * padding >= min_cell_size * c

\* lines 96-98: both candidates >= min_cell_size (x / c >= m  iff  x >= m * c)
CellFits(c, r, window_w, window_h, padding, min_cell_size) ==
    /\ window_w - (c + 1) * padding >= min_cell_size * c
    /\ window_h - (r + 1) * padding >= min_cell_size * r

\* lines 104-113: the cell sizes and the centring, from the final cols, rows
GridFinish(c, r, window_w, window_h, padding) ==
    LET cell_w == Max(1, TruncDiv(window_w - (c + 1) * padding, c))
        cell_h == Max(1, TruncDiv(window_h - (r + 1) * padding, r))
        grid_w == c * cell_w + (c + 1) * padding
        grid_h == r * cell_h + (r + 1) * padding
        left   == Max(0, TruncDiv(window_w - grid_w, 2))
        top    == Max(0, TruncDiv(window_h - grid_h, 2))
    IN  <<c, r, cell_w, cell_h, left, top>>

RECURSIVE GridSearch(_, _, _, _, _, _)
\* lines 95-102: the while loop, from cols = c
GridSearch(n, c, window_w, window_h, padding, min_cell_size) ==
    IF c > 1 /\ ~CellFits(c, CeilDiv(n, c), window_w, window_h, padding, min_cell_size)
    THEN GridSearch(n, c - 1, window_w, window_h, padding, min_cell_size)
    ELSE c

compute_grid_dimensions(n_items, window_w, window_h, padding, min_cell_size) ==
    IF n_items <= 0 THEN <<0, 0, 0, 0, 0, 0>>
    ELSE LET c == GridSearch(n_items, CeilSqrt(n_items), window_w, window_h,
                             padding, min_cell_size)
         IN  GridFinish(c, CeilDiv(n_items, c), window_w, window_h, padding)

\* the inputs tried
GridWidths   == {0, 1, 40, 100, 800}
GridHeights  == {1, 30, 100, 600}
GridPaddings == {-2, 0, 8, 50}
GridMinCells == {0, 24, 64}

GridIdle ==
    /\ g_pc = "idle" /\ g_args = None /\ cols = 0 /\ rows = 0 /\ decs = 0
    /\ g_ret = None

InitGridCall ==
    /\ g_pc = "call"
    /\ g_args \in [n_items : 0..MaxItems, window_w : GridWidths,
                   window_h : GridHeights, padding : GridPaddings,
                   min_cell_size : GridMinCells]
    /\ cols = 0 /\ rows = 0 /\ decs = 0
    /\ g_ret = None

\* lines 88-92
GridEnter ==
    /\ g_pc = "call"
    /\ IF g_args.n_items <= 0
       THEN /\ g_ret' = <<0, 0, 0, 0, 0, 0>>
            /\ g_pc' = "done"
            /\ UNCHANGED <<cols, rows>>
       ELSE /\ cols' = CeilSqrt(g_args.n_items)
            /\ rows' = CeilDiv(g_args.n_items, cols')
            /\ g_pc' = "loop"
            /\ UNCHANGED g_ret
    /\ UNCHANGED <<g_args, decs, fxVars, loopVars>>

\* lines 95-102: one iteration that does not break
GridReduce ==
    /\ g_pc = "loop"
    /\ cols > 1
    /\ ~CellFits(cols, rows, g_args.window_w, g_args.window_h, g_args.padding,
                 g_args.min_cell_size)
    /\ cols' = cols - 1
    /\ rows' = CeilDiv(g_args.n_items, cols')
    /\ decs' = decs + 1
    /\ UNCHANGED <<g_pc, g_args, g_ret, fxVars, loopVars>>

\* lines 95, 98-99, 104-113: the loop ends and the function returns
GridReturn ==
    /\ g_pc = "loop"
    /\ \/ cols <= 1
       \/ CellFits(cols, rows, g_args.window_w, g_args.window_h, g_args.padding,
                   g_args.min_cell_size)
    /\ g_ret' = GridFinish(cols, rows, g_args.window_w, g_args.window_h,
                           g_args.padding)
    /\ g_pc' = "done"
    /\ UNCHANGED <<g_args, cols, rows, decs, fxVars, loopVars>>

(***************************************************************************)
(* Samples.  numpy's float32 samples are modelled as exact rationals       *)
(* <<numerator, denominator>> in lowest terms with denominator > 0.        *)
(***************************************************************************)
RECURSIVE GCD(_, _)
GCD(a, b) == IF b = 0 THEN a ELSE GCD(b, a % b)

Abs(a) == IF a >= 0 THEN a ELSE -a

Rat(n, d) ==
    LET g == GCD(Abs(n), Abs(d))
        s == IF d < 0 THEN -1 ELSE 1
    IN  <<(s * n) \div g, (s * d) \div g>>

RAdd(p, q) == Rat(p[1] * q[2] + q[1] * p[2], p[2] * q[2])
RMul(p, q) == Rat(p[1] * q[1], p[2] * q[2])
RZero == <<0, 1>>
RInt(k) == <<k, 1>>

\* feedback=0.8 and mix=1 of Delay(delay_seconds=1, feedback=0.8, mix=1)
Feedback == <<4, 5>>
Mix == <<1, 1>>

(***************************************************************************)
(* numpy arrays of three dimensions: a shape and the nested elements.      *)
(***************************************************************************)
Size(shape) == shape[1] * shape[2] * shape[3]

\* ndarray.flatten(): row-major traversal, last index fastest
Flatten(arr) ==
    LET d1 == arr.shape[2]
        d2 == arr.shape[3]
    IN  [k \in 1..Size(arr.shape) |->
            arr.at[((k - 1) \div (d1 * d2)) + 1]
                  [(((k - 1) \div d2) % d1) + 1]
                  [((k - 1) % d2) + 1]]

\* ndarray.reshape(shape) of a flat array of Size(shape) elements
Reshape(flat, shape) ==
    [shape |-> shape,
     at |-> [i \in 1..shape[1] |-> [j \in 1..shape[2] |-> [c \in 1..shape[3] |->
                flat[(i - 1) * shape[2] * shape[3] + (j - 1) * shape[3] + c]]]]]

SeqMin(s) == CHOOSE x \in {s[k] : k \in 1..Len(s)} : \A k \in 1..Len(s) : x <= s[k]
SeqMax(s) == CHOOSE x \in {s[k] : k \in 1..Len(s)} : \A k \in 1..Len(s) : x >= s[k]

(***************************************************************************)
(* The Pedalboard of init_worker: one Delay.  The delay line holds the     *)
(* last DelaySamples values written, oldest first; pos counts the samples  *)
(* processed.  Per sample, as the Delay plugin does:                       *)
(*     delayed = pop();  push(x + feedback * delayed);                     *)
(*     y = (1 - mix) * x + mix * delayed                                   *)
(***************************************************************************)
ClearedLine == [k \in 1..DelaySamples |-> RZero]

\* corruptize.py 14-19: Pedalboard([Delay(delay_seconds=1, feedback=0.8, mix=1)])
NewBoard(id) == [id |-> id, buf |-> ClearedLine, pos |-> 0]

\* corruptize.py 9-19, on (_GLOBAL_BOARD, number of constructions so far)
init_worker(b, n) ==
    IF b = None
    THEN [board |-> NewBoard(n + 1), configured |-> n + 1]
    ELSE [board |-> b, configured |-> n]

\* the plugin's reset(): the delay line cleared, the position back at 0
ResetBoard(b) == [b EXCEPT !.buf = ClearedLine, !.pos = 0]

DelaySample(b, x) ==
    LET delayed == Head(b.buf)
    IN  [board |-> [b EXCEPT !.buf = Append(Tail(b.buf), RAdd(x, RMul(Feedback, delayed))),
                             !.pos = b.pos + 1],
         y |-> RAdd(RMul(RAdd(RInt(1), RMul(RInt(-1), Mix)), x), RMul(Mix, delayed))]

RECURSIVE DelayRun(_, _, _, _)
DelayRun(b, sig, k, out) ==
    IF k > Len(sig) THEN [board |-> b, out |-> out]
    ELSE LET r == DelaySample(b, sig[k])
         IN  DelayRun(r.board, sig, k + 1, Append(out, r.y))

\* corruptize.py 39: _GLOBAL_BOARD(audio_data, fs).  No reset argument is
\* passed, so the library's default decides whether the plugins are reset first.
BoardCall(b, sig, reset) ==
    DelayRun(IF reset THEN ResetBoard(b) ELSE b, sig, 1, <<>>)

(***************************************************************************)
(* process_image_array, corruptize.py 44-64.                               *)
(***************************************************************************)
\* a mutant of Normalize: the maxv == minv branch fills with 1.0
NormalizeFlatOne(flat) ==
    LET minv == SeqMin(flat)
        maxv == SeqMax(flat)
    IN  IF maxv = minv THEN [k \in 1..Len(flat) |-> RInt(1)]
        ELSE [k \in 1..Len(flat) |->
                 RAdd(RMul(RInt(2), Rat(flat[k] - minv, maxv - minv)), RInt(-1))]

\* lines 50-57, for a non-empty flat array of bytes
Normalize(flat) ==
    LET minv == SeqMin(flat)
        maxv == SeqMax(flat)
    IN  IF maxv = minv THEN [k \in 1..Len(flat) |-> RZero]
        ELSE [k \in 1..Len(flat) |->
                 RAdd(RMul(RInt(2), Rat(flat[k] - minv, maxv - minv)), RInt(-1))]

\* round(num / den) for den > 0, ties to even as numpy rounds
RoundDiv(num, den) ==
    LET q == num \div den
        r == num % den
    IN  IF 2 * r > den \/ (2 * r = den /\ q % 2 = 1) THEN q + 1 ELSE q

\* a mutant of Denormalize: round to nearest before the clip
DenormalizeRound(s) == Max(0, Min(255, RoundDiv((s[1] + s[2]) * 255, 2 * s[2])))

\* line 62: ((s + 1.0) * 0.5 * 255.0).clip(0, 255).astype(np.uint8)
Denormalize(s) ==
    LET num == (s[1] + s[2]) * 255
        den == 2 * s[2]
    IN  IF num <= 0 THEN 0
        ELSE IF num >= 255 * den THEN 255
        ELSE num \div den

\* The result of a call: the returned array or the exception raised, the
\* signal the chain returned, and _GLOBAL_BOARD afterwards.
process_image_array(image_array, b, reset) ==
    LET audio_data == Flatten(image_array)
    IN  IF Len(audio_data) = 0
        THEN \* line 50: min() of a zero-size array raises
             [err |-> "ValueError", out |-> None, wet |-> <<>>, board |-> b]
        ELSE IF b = None
        THEN \* line 39: None is not callable
             [err |-> "TypeError", out |-> None, wet |-> <<>>, board |-> b]
        ELSE LET r == BoardCall(b, Normalize(audio_data), reset)
                 processed_bytes == [k \in 1..Len(r.out) |-> Denormalize(r.out[k])]
             IN  [err |-> "ok", out |-> Reshape(processed_bytes, image_array.shape),
                  wet |-> r.out, board |-> r.board]

(***************************************************************************)
(* SpecFx: the two entry points, called in any order.                      *)
(***************************************************************************)
FxFrames ==
    { Reshape(<<>>, <<0, 0, 3>>),
      Reshape(<<0, 0, 0>>, <<1, 1, 3>>),
      Reshape(<<0, 0, 0, 0, 0, 0>>, <<1, 2, 3>>),
      Reshape(<<200, 200, 200>>, <<1, 1, 3>>),
      Reshape(<<0, 100, 200>>, <<1, 1, 3>>),
      Reshape(<<200, 0, 0>>, <<1, 1, 3>>),
      Reshape(<<0, 0, 200, 200, 0, 0>>, <<1, 2, 3>>) }

FxInitVars ==
    /\ board = None
    /\ configured = 0
    /\ resetDefault \in BOOLEAN
    /\ fxHist = <<>>

FxInitWorker ==
    /\ Len(fxHist) < MaxCalls
    /\ LET r == init_worker(board, configured)
       IN  /\ board' = r.board
           /\ configured' = r.configured
           /\ fxHist' = Append(fxHist, [op |-> "init_worker", in |-> None,
                                        res |-> None, before |-> board,
                                        after |-> r.board])
    /\ UNCHANGED <<resetDefault, gridVars, loopVars>>

FxProcess ==
    /\ Len(fxHist) < MaxCalls
    /\ \E frame \in FxFrames :
         LET r == process_image_array(frame, board, resetDefault)
         IN  /\ board' = r.board
             /\ fxHist' = Append(fxHist, [op |-> "process", in |-> frame,
                                          res |-> r, before |-> board,
                                          after |-> r.board])
    /\ UNCHANGED <<configured, resetDefault, gridVars, loopVars>>

(***************************************************************************)
(* main(), midi2img.py 121-223.  The configuration and the image files are *)
(* inputs of the program; the model runs with this small configuration.    *)
(***************************************************************************)
Cfg == [win_w |-> 2, win_h |-> 1, bg_color |-> <<0, 0, 0>>,
        grid_padding |-> 0, cell_margin |-> 0, min_cell_size |-> 1]

\* load_images' result: the notes whose image file loaded (a solid colour each)
Images == (60 :> [w |-> 1, h |-> 1, color |-> <<200, 0, 0>>]) @@
          (62 :> [w |-> 2, h |-> 1, color |-> <<100, 100, 100>>]) @@
          (64 :> [w |-> 1, h |-> 1, color |-> <<0, 100, 200>>])

\* the notes the keyboard sends; 67 has no loaded image
MidiNotes == {60, 62, 64, 67}

MidiMessages ==
    [type : {"note_on"}, note : MidiNotes, velocity : {0, 100}]
    \cup [type : {"note_off"}, note : MidiNotes, velocity : {0}]
    \cup [type : {"control_change"}, note : {0}, velocity : {0}]

\* a Surface: pixel colours by column x and row y (1-based here)
Surface(color) == [x \in 1..Cfg.win_w |-> [y \in 1..Cfg.win_h |-> color]]

\* ---- the dict `active`, in insertion order
Keys(d) == [k \in 1..Len(d) |-> d[k].note]
KeySet(d) == {d[k].note : k \in 1..Len(d)}
DictSet(d, note, rec) ==
    IF note \in KeySet(d)
    THEN [k \in 1..Len(d) |-> IF d[k].note = note THEN rec ELSE d[k]]
    ELSE Append(d, rec)
DictDel(d, note) == SelectSeq(d, LAMBDA e : e.note # note)

\* a mutant of IsNoteOn: the velocity is not tested
IsNoteOnAnyVelocity(msg) == msg.type = "note_on"

\* line 166
IsNoteOn(msg) == msg.type = "note_on" /\ msg.velocity > 0

\* line 170
IsNoteOff(msg) ==
    msg.type = "note_off" \/ (msg.type = "note_on" /\ msg.velocity = 0)

\* lines 166-173: one message of inport.iter_pending()
HandleMsg(act, msg, now) ==
    IF IsNoteOn(msg)
    THEN IF msg.note \in DOMAIN Images
         THEN DictSet(act, msg.note, [note |-> msg.note, on_time |-> now])
         ELSE act
    ELSE IF IsNoteOff(msg)
    THEN IF msg.note \in KeySet(act) THEN DictDel(act, msg.note) ELSE act
    ELSE act

\* ---- rendering
RECURSIVE InsertSorted(_, _)
InsertSorted(s, x) ==
    IF s = <<>> THEN <<x>>
    ELSE IF x <= Head(s) THEN <<x>> \o s
    ELSE <<Head(s)>> \o InsertSorted(Tail(s), x)

RECURSIVE SortNotes(_)
SortNotes(s) == IF s = <<>> THEN <<>> ELSE InsertSorted(SortNotes(Tail(s)), Head(s))

\* a mutant of Sorted: the dict's own order
Unsorted(s) == s

\* line 187: sorted(active.keys())
Sorted(s) == SortNotes(s)

\* lines 68-79: the size of the scaled surface (smoothscale keeps a solid
\* colour).  w * scale is taken exactly; the images of the model are one pixel
\* high, for which the float product is exact too.
scale_surface_to_fit_exact(img, max_w, max_h) ==
    IF img.w = 0 \/ img.h = 0 THEN img
    ELSE IF max_w * img.h <= max_h * img.w
    THEN [img EXCEPT !.w = Max(1, TruncDiv(img.w * max_w, img.w)),
                     !.h = Max(1, TruncDiv(img.h * max_w, img.w))]
    ELSE [img EXCEPT !.w = Max(1, TruncDiv(img.w * max_h, img.h)),
                     !.h = Max(1, TruncDiv(img.h * max_h, img.h))]

\* screen.blit(scaled, (pos_x, pos_y)) of an opaque surface
Blit(surf, img, pos_x, pos_y) ==
    [x \in 1..Cfg.win_w |-> [y \in 1..Cfg.win_h |->
        IF /\ pos_x <= x - 1 /\ x - 1 < pos_x + img.w
           /\ pos_y <= y - 1 /\ y - 1 < pos_y + img.h
        THEN img.color ELSE surf[x][y]]]

\* lines 189-207: the body of the drawing loop for index idx (0-based)
DrawNote(surf, g, idx, note) ==
    LET row == idx \div g[1]
        col == idx % g[1]
        cell_x == g[5] + Cfg.grid_padding + col * (g[3] + Cfg.grid_padding)
        cell_y == g[6] + Cfg.grid_padding + row * (g[4] + Cfg.grid_padding)
        avail_w == Max(1, g[3] - 2 * Cfg.cell_margin)
        avail_h == Max(1, g[4] - 2 * Cfg.cell_margin)
        scaled == scale_surface_to_fit_exact(Images[note], avail_w, avail_h)
        pos_x == cell_x + ((g[3] - scaled.w) \div 2)
        pos_y == cell_y + ((g[4] - scaled.h) \div 2)
    IN  [surf |-> Blit(surf, scaled, pos_x, pos_y), cell |-> <<note, row, col>>]

RECURSIVE DrawLoop(_, _, _, _, _)
DrawLoop(surf, g, notes, k, placed) ==
    IF k > Len(notes) THEN [surf |-> surf, placed |-> placed]
    ELSE LET r == DrawNote(surf, g, k - 1, notes[k])
         IN  DrawLoop(r.surf, g, notes, k + 1, Append(placed, r.cell))

\* lines 178-207
DrawActive(surf, act) ==
    IF Len(act) > 0
    THEN DrawLoop(surf,
                  compute_grid_dimensions(Len(act), Cfg.win_w, Cfg.win_h,
                                          Cfg.grid_padding, Cfg.min_cell_size),
                  Sorted(Keys(act)), 1, <<>>)
    ELSE [surf |-> surf, placed |-> <<>>]

\* a mutant of Fill: the background is not repainted
FillSkipped(surf, color) == surf

\* line 176: screen.fill(bg_color)
Fill(surf, color) == Surface(color)

\* line 117: pygame.surfarray.array3d(screen), shape (width, height, 3)
array3d(surf) == [shape |-> <<Cfg.win_w, Cfg.win_h, 3>>, at |-> surf]

\* line 119: pygame.surfarray.make_surface(processed)
make_surface(arr) == arr.at

\* lines 212-213: modified.set_alpha(128); blit with BLEND_ADD.  Whether the
\* surface alpha scales the source under BLEND_ADD is the pygame build's.
BlendAdd(dst, src, withAlpha) ==
    [x \in 1..Cfg.win_w |-> [y \in 1..Cfg.win_h |-> [c \in 1..3 |->
        Min(255, dst[x][y][c] +
                 (IF withAlpha THEN (src[x][y][c] * 128) \div 255
                  ELSE src[x][y][c]))]]]

LoopIdle ==
    /\ pc = "idle" /\ running = FALSE /\ active = <<>> /\ screen = None
    /\ modified = None /\ ticks = 0 /\ msgs = 0 /\ blendAlpha = FALSE
    /\ lastEv = None /\ placement = <<>> /\ fxIn = None /\ presented = None

LoopInit ==
    /\ pc = "start" /\ running = TRUE /\ active = <<>>
    /\ screen = Surface(<<0, 0, 0>>)
    /\ modified = None /\ ticks = 0 /\ msgs = 0
    /\ blendAlpha \in BOOLEAN
    /\ lastEv = [n \in MidiNotes |-> "none"]
    /\ placement = <<>> /\ fxIn = None /\ presented = None

\* lines 153-155
MainStart ==
    /\ pc = "start"
    /\ LET r == init_worker(board, configured)
       IN  board' = r.board /\ configured' = r.configured
    /\ pc' = "events"
    /\ UNCHANGED <<running, active, screen, modified, ticks, msgs, blendAlpha,
                   lastEv, placement, fxIn, presented, resetDefault, fxHist,
                   gridVars>>

\* lines 156-162: the loop test and the pygame events of this tick
PollEvents ==
    /\ pc = "events"
    /\ ticks < MaxTicks
    /\ \E quit \in BOOLEAN : running' = (running /\ ~quit)
    /\ pc' = "midi"
    /\ UNCHANGED <<active, screen, modified, ticks, msgs, blendAlpha, lastEv,
                   placement, fxIn, presented, fxVars, gridVars>>

\* lines 165-173: one pending message
MidiMsg ==
    /\ pc = "midi"
    /\ msgs < MaxMsgs
    /\ \E msg \in MidiMessages :
         /\ active' = HandleMsg(active, msg, ticks)
         /\ lastEv' = IF msg.type = "note_on" /\ msg.velocity > 0
                      THEN [lastEv EXCEPT ![msg.note] = "on"]
                      ELSE IF msg.type \in {"note_on", "note_off"}
                      THEN [lastEv EXCEPT ![msg.note] = "off"]
                      ELSE lastEv
    /\ msgs' = msgs + 1
    /\ UNCHANGED <<pc, running, screen, modified, ticks, blendAlpha, placement,
                   fxIn, presented, fxVars, gridVars>>

\* line 165: iter_pending() is exhausted
MidiDrained ==
    /\ pc = "midi"
    /\ pc' = "fill"
    /\ UNCHANGED <<running, active, screen, modified, ticks, msgs, blendAlpha,
                   lastEv, placement, fxIn, presented, fxVars, gridVars>>

\* line 176
FillStep ==
    /\ pc = "fill"
    /\ screen' = Fill(screen, Cfg.bg_color)
    /\ pc' = "draw"
    /\ UNCHANGED <<running, active, modified, ticks, msgs, blendAlpha, lastEv,
                   placement, fxIn, presented, fxVars, gridVars>>

\* lines 178-207
DrawStep ==
    /\ pc = "draw"
    /\ LET r == DrawActive(screen, active)
       IN  screen' = r.surf /\ placement' = r.placed
    /\ pc' = "effect"
    /\ UNCHANGED <<running, active, modified, ticks, msgs, blendAlpha, lastEv,
                   fxIn, presented, fxVars, gridVars>>

\* line 211 and process_screen, lines 115-119
EffectStep ==
    /\ pc = "effect"
    /\ LET arr == array3d(screen)
           r == process_image_array(arr, board, resetDefault)
       IN  /\ fxIn' = arr
           /\ board' = r.board
           /\ IF r.err = "ok"
              THEN modified' = make_surface(r.out) /\ pc' = "blend"
              ELSE modified' = modified /\ pc' = "done"
    /\ UNCHANGED <<running, active, screen, ticks, msgs, blendAlpha, lastEv,
                   placement, presented, configured, resetDefault, fxHist,
                   gridVars>>

\* lines 212-213
BlendStep ==
    /\ pc = "blend"
    /\ screen' = BlendAdd(screen, modified, blendAlpha)
    /\ pc' = "flip"
    /\ UNCHANGED <<running, active, modified, ticks, msgs, blendAlpha, lastEv,
                   placement, fxIn, presented, fxVars, gridVars>>

\* lines 216-217, then the loop test of line 156
FlipStep ==
    /\ pc = "flip"
    /\ presented' = screen
    /\ ticks' = ticks + 1
    /\ pc' = IF running THEN "events" ELSE "done"
    /\ UNCHANGED <<running, active, screen, modified, msgs, blendAlpha, lastEv,
                   placement, fxIn, fxVars, gridVars>>

\* lines 219-223: KeyboardInterrupt at any point of the loop
Interrupt ==
    /\ pc \in {"events", "midi", "fill", "draw", "effect", "blend", "flip"}
    /\ pc' = "done"
    /\ UNCHANGED <<running, active, screen, modified, ticks, msgs, blendAlpha,
                   lastEv, placement, fxIn, presented, fxVars, gridVars>>

(***************************************************************************)
(* The specifications.                                                     *)
(***************************************************************************)
InitGrid == InitGridCall /\ FxInitVars /\ resetDefault = TRUE /\ LoopIdle
NextGrid == GridEnter \/ GridReduce \/ GridReturn
SpecGrid == InitGrid /\ [][NextGrid]_vars

InitFx == GridIdle /\ FxInitVars /\ LoopIdle
NextFx == FxInitWorker \/ FxProcess
SpecFx == InitFx /\ [][NextFx]_vars

Init == GridIdle /\ FxInitVars /\ LoopInit
Next ==
    \/ MainStart \/ PollEvents \/ MidiMsg \/ MidiDrained \/ FillStep
    \/ DrawStep \/ EffectStep \/ BlendStep \/ FlipStep \/ Interrupt
Spec == Init /\ [][Next]_vars

(***************************************************************************)
(*                              The claims                                 *)
(***************************************************************************)

\* ---------------------------------------------------------------- SpecGrid

\* C2: for item_count >= 1 and every canvas, padding and min_cell_size,
\* compute_grid_dimensions returns columns >= 1, rows >= 1,
\* columns * rows >= item_count, cell_width >= 1 and cell_height >= 1.
C2_GridCoversItems ==
    (g_pc = "done" /\ g_args.n_items >= 1) =>
        /\ g_ret[1] >= 1
        /\ g_ret[2] >= 1
        /\ g_ret[1] * g_ret[2] >= g_args.n_items
        /\ g_ret[3] >= 1
        /\ g_ret[4] >= 1

\* C2's case: a call whose width candidate is negative (the padding exceeds
\* the canvas) after the search went down to one column.
C2_Witness ==
    /\ g_pc = "done"
    /\ g_args.n_items = MaxItems
    /\ g_args.window_w - 2 * g_args.padding < 0
    /\ decs >= 1
    /\ g_ret[3] = 1

\* The loop taken step by step returns what the operator used by the drawing
\* code computes.
GridStepsMatchOperator ==
    g_pc = "done" =>
        g_ret = compute_grid_dimensions(g_args.n_items, g_args.window_w,
                                        g_args.window_h, g_args.padding,
                                        g_args.min_cell_size)

\* the claim's acceptance test of a column count c, from the claim's words
C9_Accepts(c) ==
    LET n == g_args.n_items
        r == (n + c - 1) \div c
    IN  \/ c = 1
        \/ /\ g_args.window_w - (c + 1) * g_args.padding >= g_args.min_cell_size * c
           /\ g_args.window_h - (r + 1) * g_args.padding >= g_args.min_cell_size * r

C9_Result ==
    (g_pc = "done" /\ g_args.n_items >= 1) =>
        LET n  == g_args.n_items
            c0 == CHOOSE c \in 1..n : c * c >= n /\ \A d \in 1..(c - 1) : d * d < n
            best == CHOOSE c \in 1..c0 :
                        C9_Accepts(c) /\ \A d \in (c + 1)..c0 : ~C9_Accepts(d)
            r  == (n + best - 1) \div best
        IN  /\ g_ret[1] = best
            /\ g_ret[2] = r
            /\ g_ret[3] = Max(1, (g_args.window_w - (best + 1) * g_args.padding) \div best)
            /\ g_ret[4] = Max(1, (g_args.window_h - (r + 1) * g_args.padding) \div r)
            /\ g_ret[5] >= 0
            /\ g_ret[6] >= 0
            /\ decs <= c0 - 1
            /\ decs = c0 - best
            /\ (n = 5 /\ g_args.window_w = 800 /\ g_args.window_h = 600
                /\ g_args.padding = 8 /\ g_args.min_cell_size = 24)
               => g_ret = <<3, 2, 256, 288, 0, 0>>

\* C9: columns is the largest c in 1..ceil(sqrt(n)) that is 1 or meets
\* min_cell_size in both directions with rows = ceil(n / c); the cell sizes
\* are the floors of the candidates clamped to >= 1; the origin is >= 0; the
\* search never increases columns and makes at most ceil(sqrt(n)) - 1
\* decrements; (5, 800x600, 8, 24) gives 3 x 2 cells of 256 x 288 at (0, 0).
C9_ColumnSearch ==
    /\ []C9_Result
    /\ [][g_pc = "loop" => cols' <= cols]_vars

\* C9's case: the search gave up one column count and stopped at the next,
\* which is still more than one column.
C9_Witness ==
    /\ g_pc = "done"
    /\ g_args.n_items = 5
    /\ decs = 1
    /\ g_ret[1] = 2

\* ------------------------------------------------------------------ SpecFx

FxProcessCalls == {k \in 1..Len(fxHist) : fxHist[k].op = "process"}
FxReturned == {k \in FxProcessCalls : fxHist[k].res.err = "ok"}

\* C1: the delay unit's history buffer and position counter are never reset
\* by a process call or a repeated init_worker call: every call starts from
\* the state the previous call left, and the position advances by the
\* frame's sample count on every call.
C1_DelayStatePersists ==
    /\ \A k \in FxReturned :
         LET e == fxHist[k]
             carried == DelayRun(e.before, Normalize(Flatten(e.in)), 1, <<>>).board
         IN  /\ e.after.pos = e.before.pos + Size(e.in.shape)
             /\ e.after.buf = carried.buf
    /\ \A k \in 1..Len(fxHist) :
         (fxHist[k].op = "init_worker" /\ fxHist[k].before # None)
             => fxHist[k].after = fxHist[k].before
    /\ \A k \in 2..Len(fxHist) : fxHist[k].before = fxHist[k - 1].after

\* C4: whatever the order of the calls, the chain is configured exactly once,
\* lazily at the first call that needs it; no call finds it unconfigured and
\* no call replaces it.
C4_ChainConfiguredLazily ==
    /\ configured <= 1
    /\ \A k \in FxProcessCalls :
         Size(fxHist[k].in.shape) > 0 =>
             /\ fxHist[k].res.err # "TypeError"
             /\ fxHist[k].after # None
    /\ \A k \in 1..Len(fxHist) :
         fxHist[k].before # None => fxHist[k].after.id = fxHist[k].before.id

\* C5: process_image_array on an empty frame returns an empty buffer of the
\* frame's shape and raises nothing.
C5_EmptyFrameReturnsEmpty ==
    \A k \in FxProcessCalls :
        Size(fxHist[k].in.shape) = 0 =>
            /\ fxHist[k].res.err = "ok"
            /\ fxHist[k].res.out.shape = fxHist[k].in.shape

\* the case of C6: a fresh chain, then the same flat-zero frame twice, the
\* delay offset shorter than two frames' samples
C6_TwiceFlatZero ==
    /\ Len(fxHist) >= 3
    /\ fxHist[1].op = "init_worker"
    /\ fxHist[2].op = "process"
    /\ fxHist[3].op = "process"
    /\ fxHist[3].in = fxHist[2].in
    /\ Size(fxHist[2].in.shape) > 0
    /\ \A k \in 1..Size(fxHist[2].in.shape) : Flatten(fxHist[2].in)[k] = 0
    /\ DelaySamples < 2 * Size(fxHist[2].in.shape)

\* C6 as stated: the second call's output differs from the first call's.
C6_SecondOutputDiffers ==
    C6_TwiceFlatZero => fxHist[3].res.out # fxHist[2].res.out

\* C6 as amended: the second call's output is identical to the first call's.
C6_SecondOutputSame ==
    C6_TwiceFlatZero => fxHist[3].res.out = fxHist[2].res.out

C6_Witness == C6_TwiceFlatZero /\ fxHist[3].res.err = "ok"

\* C10 as stated: byte = clip(round((s + 1) * 0.5 * 255), 0, 255).
C10_DenormalizeRounds ==
    \A k \in FxReturned :
        LET bytes == Flatten(fxHist[k].res.out)
            wet == fxHist[k].res.wet
        IN  \A i \in 1..Len(wet) :
                bytes[i] = Max(0, Min(255,
                               RoundDiv((wet[i][1] + wet[i][2]) * 255, 2 * wet[i][2])))

\* C10 as amended: byte = clip(floor((s + 1) * 0.5 * 255), 0, 255): the scaled
\* value is truncated, so s = -1 gives 0, s = 1 gives 255 and s = 0 gives 127.
C10_DenormalizeTruncates ==
    \A k \in FxReturned :
        LET bytes == Flatten(fxHist[k].res.out)
            wet == fxHist[k].res.wet
        IN  /\ Len(bytes) = Len(wet)
            /\ \A i \in 1..Len(wet) :
                 LET num == (wet[i][1] + wet[i][2]) * 255
                     den == 2 * wet[i][2]
                     b == bytes[i]
                 IN  /\ b \in 0..255
                     /\ num < 0 => b = 0
                     /\ num >= 255 * den => b = 255
                     /\ (0 <= num /\ num < 255 * den)
                            => (b * den <= num /\ num < (b + 1) * den)
                     /\ wet[i] = <<-1, 1>> => b = 0
                     /\ wet[i] = <<1, 1>> => b = 255
                     /\ wet[i] = <<0, 1>> => b = 127

\* C10's case: one call returned a sample of 0 (byte 127), one of 1 and one
\* strictly between two bytes that rounding would take up.
C10_Witness ==
    /\ \E k \in FxReturned : \E i \in 1..Len(fxHist[k].res.wet) :
         fxHist[k].res.wet[i] = <<0, 1>> /\ Flatten(fxHist[k].res.out)[i] = 127
    /\ \E k \in FxReturned : \E i \in 1..Len(fxHist[k].res.wet) :
         fxHist[k].res.wet[i] = <<1, 1>> /\ Flatten(fxHist[k].res.out)[i] = 255

\* -------------------------------------------------------------------- Spec

Held(S) == {n \in S : lastEv[n] = "on"}

\* C3 as stated: at render time the active set is the set of notes whose most
\* recent note event is a note-on with velocity > 0.
C3_ActiveIsHeldNotes ==
    pc = "draw" => KeySet(active) = Held(MidiNotes)

\* C3 as amended: ... the set of notes with a loaded image whose most recent
\* note event is a note-on with velocity > 0, one record per note.
C3_ActiveIsHeldImageNotes ==
    pc = "draw" =>
        /\ KeySet(active) = Held(DOMAIN Images)
        /\ Cardinality(KeySet(active)) = Len(active)

\* C3's case: 60 and 64 went on, 60 went off again; only 64 is drawn.
C3_Witness ==
    /\ pc = "draw"
    /\ msgs = 3
    /\ lastEv[60] = "off" /\ lastEv[64] = "on" /\ lastEv[62] = "none"
    /\ lastEv[67] = "none"
    /\ Keys(active) = <<64>>

NthSmallest(S, i) == CHOOSE x \in S : Cardinality({y \in S : y < x}) = i

PlacementOf(S) ==
    LET columns == compute_grid_dimensions(Cardinality(S), Cfg.win_w, Cfg.win_h,
                                           Cfg.grid_padding, Cfg.min_cell_size)[1]
    IN  [i \in 1..Cardinality(S) |->
            <<NthSmallest(S, i - 1), (i - 1) \div columns, (i - 1) % columns>>]

\* C7: the i-th image drawn (0-based) is the i-th smallest active note, in
\* cell (i div columns, i mod columns): the placement is a function of the
\* active set's membership, not of the order the note-ons arrived in.
C7_PlacementBySortedNote ==
    pc \in {"effect", "blend", "flip"} => placement = PlacementOf(KeySet(active))

\* C7's case: the notes went on in descending order and were drawn ascending.
C7_Witness ==
    /\ pc = "effect"
    /\ Keys(active) = <<64, 62, 60>>
    /\ placement[1][1] = 60 /\ placement[3][1] = 64

\* C8: the frame handed to the effect chain is the raw render of the tick
\* (background plus the active images), never a frame the blend touched.
C8_EffectInputIsRawRender ==
    pc \in {"blend", "flip"} =>
        fxIn = array3d(DrawActive(Surface(Cfg.bg_color), active).surf)

\* C8's case: a second tick's effect call, after a blended frame that differs
\* from the raw render was presented.
C8_Witness ==
    /\ ticks >= 1
    /\ pc = "blend"
    /\ presented # Surface(Cfg.bg_color)
    /\ presented # make_surface(fxIn)

====
